---------------------------- MODULE Spec2Model ----------------------------
(***************************************************************************)
(* real-drive-looper: the /trim pipeline of src/server.js (the revision    *)
(* with the concurrency gate, lines 1-438), the time parsing of its second *)
(* revision (lines 440-797) and of src/unnamed/part_000, the encoder       *)
(* arguments and streamFile as functions of a request, the source cache of *)
(* both revisions (/video and /trim resolving a source file), gate() with  *)
(* its release closures, the output files trimmed_<Date.now()>.mp4 of both *)
(* revisions, and the registry of preview handles, which is not part of    *)
(* the two revisions at hand and follows the specification's description.  *)
(*                                                                         *)
(* Times are integers in tenths of a millisecond (1 s = 10000), so that    *)
(* the rounding to millisecond precision done by the code is visible.      *)
(***************************************************************************)
EXTENDS Integers, Sequences, FiniteSets, TLC

\* ------------------------------------------------------------------ bounds
\* Number of concurrently tracked requests.
NumReq == 2
\* Largest whole-second value a request field carries.
MaxSec == 2
\* Largest file size and largest byte position of a Range header.
MaxFile == 3
\* Number of concurrently tracked requests that resolve a source file.
NumClients == 2
\* Size of a source asset, in chunks of its download.
FileChunks == 2
\* Number of callers of gate(), most calls of one release closure, and how
\* far below zero the counter is followed.
NumCallers == 3
MaxReleaseCalls == 2
MaxDebt == 2
\* Sessions, preview handles issued, and the last instant of the clock.
NumSessions == 2
NumHandles == 2
MaxClock == 4
\* Jobs that write an output file, and the last value of Date.now().
NumJobs == 2
MaxNow == 2

\* One second and one millisecond in tenths of a millisecond.
Sec == 10000
Ms == 10

\* ----------------------------------------------------------- request fields
\* A field of a request body / query string:
\*   none  absent (undefined or null)
\*   num   a numeric literal; v is the time it denotes in tenths of a ms
\*         (for start/end the literal is in seconds, for startMs/endMs in ms)
\*   nan   a non-numeric string ("abc")
\*   inf   the string "Infinity"
\*   ts    a colon-delimited timestamp hh:mm:ss[.frac], frac a digit sequence
None == [t |-> "none"]
Num(v) == [t |-> "num", v |-> v]
BadStr == [t |-> "nan"]
InfStr == [t |-> "inf"]
Ts(hh, mm, ss, frac) == [t |-> "ts", hh |-> hh, mm |-> mm, ss |-> ss, frac |-> frac]

\* A JS number: finite with value v (tenths of ms), or NaN / Infinity.
Fin(v) == [fin |-> TRUE, v |-> v]
NaN == [fin |-> FALSE, v |-> 0]
Infinity == [fin |-> FALSE, v |-> 1]

\* parseFloat(x) for a start/end field (seconds), and parseFloat(x) / 1000
\* for a startMs/endMs field: both give the time in tenths of a ms.
\* parseFloat reads the longest numeric prefix: of "01:02:03.5" it reads 01.
parseFloat(f) ==
  CASE f.t = "num" -> Fin(f.v)
    [] f.t = "inf" -> Infinity
    [] f.t = "ts"  -> Fin(f.hh * Sec)
    [] OTHER       -> NaN

\* parseInt(x, 10) of a startMs/endMs field, in whole milliseconds.
parseInt(f) ==
  CASE f.t = "num" -> Fin(f.v \div Ms)
    [] f.t = "ts"  -> Fin(f.hh)
    [] OTHER       -> NaN

\* Number(x): the whole string must be numeric.
Number(f) ==
  CASE f.t = "num" -> Fin(f.v)
    [] f.t = "inf" -> Infinity
    [] OTHER       -> NaN

\* +x.toFixed(3) of a non-negative time: rounded to the millisecond.
toFixed3(x) == ((x + 5) \div Ms) * Ms

\* Math.round(parseFloat(x) * 1000), in tenths of a ms.
MathRoundMs(x) == ((x + 5) \div Ms) * Ms

Failure(msg) == [ok |-> FALSE, err |-> msg]

\* src/server.js normalizeTimes
normalizeTimes(q) ==
  LET s == IF q.start.t # "none" THEN parseFloat(q.start)
           ELSE IF q.startMs.t # "none" THEN parseFloat(q.startMs)
           ELSE NaN
      e == IF q.end.t # "none" THEN parseFloat(q.end)
           ELSE IF q.endMs.t # "none" THEN parseFloat(q.endMs)
           ELSE NaN
  IN  IF ~s.fin \/ ~e.fin THEN Failure("Invalid start/end time.")
      ELSE IF e.v <= s.v THEN Failure("End time must be after start time.")
      ELSE
        LET startSec == toFixed3(s.v)
            endSec == toFixed3(e.v)
            duration == toFixed3(endSec - startSec)
            sm == parseInt(q.startMs)
            em == parseInt(q.endMs)
            msNonZero ==
              \/ q.startMs.t # "none" /\ (~sm.fin \/ sm.v % 1000 # 0)
              \/ q.endMs.t # "none" /\ (~em.fin \/ em.v % 1000 # 0)
            hasFraction == (startSec % Sec # 0) \/ (endSec % Sec # 0)
        IN  [ok |-> TRUE, startSec |-> startSec, duration |-> duration,
             forcePrecise |-> msNonZero \/ hasFraction]

\* src/unnamed/part_000 normalizeTimes
normalizeTimesV1(q) ==
  LET s == IF q.start.t # "none" THEN parseFloat(q.start)
           ELSE IF q.startMs.t # "none" THEN parseFloat(q.startMs)
           ELSE NaN
      e == IF q.end.t # "none" THEN parseFloat(q.end)
           ELSE IF q.endMs.t # "none" THEN parseFloat(q.endMs)
           ELSE NaN
  IN  IF ~s.fin \/ ~e.fin THEN Failure("Invalid start/end time.")
      ELSE IF e.v <= s.v THEN Failure("End time must be after start time.")
      ELSE
        LET startSec == toFixed3(s.v)
            endSec == toFixed3(e.v)
        IN  [ok |-> TRUE, startSec |-> startSec,
             duration |-> toFixed3(endSec - startSec),
             forcePrecise |-> q.startMs.t # "none" \/ q.endMs.t # "none"]

\* isNum(v): v != null && /^\d+(\.\d+)?$/.test(String(v))
isNum(f) == f.t = "num"

\* The integer a digit string denotes: +"05" = 5.
RECURSIVE DigitsValue(_)
DigitsValue(d) ==
  IF d = <<>> THEN 0 ELSE DigitsValue(SubSeq(d, 1, Len(d) - 1)) * 10 + d[Len(d)]

\* The regular expression of toMs: (\d+):([0-5]?\d):([0-5]?\d)(?:\.(\d{1,3}))?
tsMatches(f) == f.t = "ts" /\ f.mm <= 59 /\ f.ss <= 59 /\ Len(f.frac) <= 3

\* toMs of parseTimeInputs, in tenths of a ms: the fraction group is added
\* as the integer it spells.
toMs(f) ==
  (f.hh * 3600000 + f.mm * 60000 + f.ss * 1000 + DigitsValue(f.frac)) * Ms

\* src/server.js (second revision) parseTimeInputs
parseTimeInputs(q) ==
  IF q.startMs.t # "none" /\ q.endMs.t # "none" THEN
    LET startMs == Number(q.startMs)
        endMs == Number(q.endMs)
    IN  IF ~startMs.fin \/ ~endMs.fin THEN Failure("Invalid millisecond values.")
        ELSE [ok |-> TRUE, startMs |-> startMs.v, endMs |-> endMs.v]
  ELSE IF isNum(q.start) /\ isNum(q.end) THEN
    [ok |-> TRUE, startMs |-> MathRoundMs(parseFloat(q.start).v),
                  endMs |-> MathRoundMs(parseFloat(q.end).v)]
  ELSE IF q.start.t # "none" /\ q.end.t # "none" THEN
    IF ~tsMatches(q.start) \/ ~tsMatches(q.end)
    THEN Failure("Bad timestamp. Use HH:MM:SS.mmm")
    ELSE [ok |-> TRUE, startMs |-> toMs(q.start), endMs |-> toMs(q.end)]
  ELSE Failure("Missing parameters.")

\* The range a /trim handler of the second revision hands to the encoder:
\* parseTimeInputs, then "if (!(endMs > startMs)) throw".
trimRange(q) ==
  LET p == parseTimeInputs(q)
  IN  IF ~p.ok THEN p
      ELSE IF ~(p.endMs > p.startMs) THEN Failure("End must be after start.")
      ELSE [ok |-> TRUE, startMs |-> p.startMs, duration |-> p.endMs - p.startMs]

\* ------------------------------------------------------ mode and arguments
\* The mode field of a /trim request: absent, "copy" or "precise".
ModeHints == {"none", "copy", "precise"}

\* A mode selection in which a "copy" hint wins over forcePrecise.
preciseUnlessCopyHint(forcePrecise, mode) ==
  mode = "precise" \/ (forcePrecise /\ mode # "copy")

\* const precise = forcePrecise || mode === "precise";
precise(forcePrecise, mode) == forcePrecise \/ mode = "precise"

\* The argument list of an encoder invocation, by its options:
\*   seek  where -ss/-t stand: after -i (accurate) or before -i (keyframe)
\*   i, ss, t  the input, the start and the duration
\*   cv, preset, crf, ba  video codec ("copy": -c copy) and its settings
\*   movflags, out  container flags and the output ("-": standard output)
CopyArgs(srcPath, startSec, duration, movflags, out) ==
  [seek |-> "before -i", i |-> srcPath, ss |-> startSec, t |-> duration,
   cv |-> "copy", preset |-> "", crf |-> "", ba |-> "",
   movflags |-> movflags, out |-> out]

\* pipeFfmpegToResponse: the arguments of the streamed encoder.
previewArgs(srcPath, startSec, duration, prec, previewQuality) ==
  IF prec
  THEN [seek |-> "after -i", i |-> srcPath, ss |-> startSec, t |-> duration,
        cv |-> "libx264",
        preset |-> IF previewQuality THEN "ultrafast" ELSE "veryfast",
        crf |-> IF previewQuality THEN "26" ELSE "20",
        ba |-> IF previewQuality THEN "96k" ELSE "192k",
        movflags |-> "frag_keyframe+empty_moov+faststart", out |-> "-"]
  ELSE CopyArgs(srcPath, startSec, duration,
                "frag_keyframe+empty_moov+faststart", "-")

\* The arguments of the encoder that writes outPath (POST /trim without
\* preview, GET /trim).
downloadArgs(srcPath, startSec, duration, prec, outPath) ==
  IF prec
  THEN [seek |-> "after -i", i |-> srcPath, ss |-> startSec, t |-> duration,
        cv |-> "libx264", preset |-> "veryfast", crf |-> "20", ba |-> "192k",
        movflags |-> "+faststart", out |-> outPath]
  ELSE CopyArgs(srcPath, startSec, duration, "+faststart", outPath)

\* A /trim handler that hands the end of the range to -t.
trimArgsEndAsDuration(q, mode) ==
  LET n == normalizeTimes(q)
  IN  IF ~n.ok THEN n
      ELSE LET p == precise(n.forcePrecise, mode)
           IN  [ok |-> TRUE, mode |-> mode, startSec |-> n.startSec,
                duration |-> n.duration, forcePrecise |-> n.forcePrecise,
                precise |-> p,
                preview |-> previewArgs("srcPath", n.startSec,
                                        n.startSec + n.duration, p, TRUE),
                download |-> downloadArgs("srcPath", n.startSec, n.duration,
                                          p, "outPath")]

\* A /trim handler of the first revision from normalizeTimes to the encoder
\* arguments, for a request with preview set and for one without.
trimArgs(q, mode) ==
  LET n == normalizeTimes(q)
  IN  IF ~n.ok THEN n
      ELSE LET p == precise(n.forcePrecise, mode)
           IN  [ok |-> TRUE, mode |-> mode, startSec |-> n.startSec,
                duration |-> n.duration, forcePrecise |-> n.forcePrecise,
                precise |-> p,
                preview |-> previewArgs("srcPath", n.startSec, n.duration,
                                        p, TRUE),
                download |-> downloadArgs("srcPath", n.startSec, n.duration,
                                          p, "outPath")]

\* msToTimestamp: the fields of hh:mm:ss.mmm; mmm is ms % 1000, here in
\* tenths of a millisecond.
msToTimestamp(ms) ==
  LET a == IF ms < 0 THEN 0 - ms ELSE ms
  IN  [sign |-> IF ms < 0 THEN "-" ELSE "",
       hh |-> a \div (3600000 * Ms),
       mm |-> (a % (3600000 * Ms)) \div (60000 * Ms),
       ss |-> (a % (60000 * Ms)) \div (1000 * Ms),
       mmm |-> a % (1000 * Ms)]

\* pad(mmm, 3) of msToTimestamp for a whole number of milliseconds below 1000:
\* its three digits.
pad3(n) == <<n \div 100, (n \div 10) % 10, n % 10>>

\* The string msToTimestamp returns, as the request field it is when sent
\* back as start or end.
timestampField(ts) == Ts(ts.hh, ts.mm, ts.ss, pad3(ts.mmm \div Ms))

\* msToTimestamp(ms) handed to toMs of parseTimeInputs.
msRoundTrip(ms) ==
  LET f == timestampField(msToTimestamp(ms))
  IN  IF ~tsMatches(f) THEN Failure("Bad timestamp. Use HH:MM:SS.mmm")
      ELSE [ok |-> TRUE, ts |-> f, ms |-> toMs(f)]

\* ffmpegAccurateCmd: always accurate seek and re-encoding.
ffmpegAccurateCmd(input, startTS, durTS, outPath, preset, crf, audioBitrate) ==
  [seek |-> "after -i", i |-> input, ss |-> startTS, t |-> durTS,
   cv |-> "libx264", preset |-> preset, crf |-> crf, ba |-> audioBitrate,
   movflags |-> "+faststart", out |-> outPath]

\* The state of the local cache a /trim handler of the second revision sees.
CacheStates == {"disabled", "complete", "incomplete"}

\* The /trim handlers of the second revision from the choice of the input to
\* the encoder command: POST with preview, POST without, and GET.
trimCmds(q, cache) ==
  LET r == trimRange(q)
  IN  IF ~r.ok THEN r
      ELSE LET startTS == msToTimestamp(r.startMs)
               durTS == msToTimestamp(r.duration)
               local == IF cache = "disabled" THEN "inputUrl" ELSE "srcPath"
               previewIn == IF cache = "complete" THEN "srcPath" ELSE "inputUrl"
           IN  [ok |-> TRUE, cache |-> cache,
                preview |-> ffmpegAccurateCmd(previewIn, startTS, durTS,
                              "outPath", "ultrafast", "20", "160k"),
                download |-> ffmpegAccurateCmd(local, startTS, durTS,
                               "outPath", "ultrafast", "20", "160k"),
                downloadGet |-> ffmpegAccurateCmd(local, startTS, durTS,
                                  "outPath", "veryfast", "18", "192k")]

\* ------------------------------------------------------------- streamFile
\* A Range header "bytes=<first>-<last>" after replace and split("-"): each
\* part is a digit string (Num) or the empty string (None).  NoHeader: the
\* request has no Range header.
NoHeader == [hdr |-> "none"]
Bytes(first, last) == [hdr |-> "bytes", first |-> first, last |-> last]

\* parseInt(part, 10) of a part of the Range header: parseInt("") is NaN.
parseInt10(p) == IF p.t = "num" THEN Fin(p.v) ELSE NaN

\* streamFile(req, res, filePath, mimeType) for a file of fileSize bytes:
\* the status and the headers written.  fs.createReadStream throws for a
\* start that is not an integer, for a negative end and for start > end,
\* before any header is written; the /video handler's catch then answers 500.
streamFile(fileSize, range) ==
  IF range.hdr = "none"
  THEN [status |-> 200, contentLength |-> fileSize]
  ELSE LET start == parseInt10(range.first)
           end == IF range.last.t # "none" THEN parseInt10(range.last)
                  ELSE Fin(fileSize - 1)
       IN  IF ~start.fin \/ end.v < 0 \/ start.v > end.v
           THEN [status |-> 500]
           ELSE [status |-> 206, start |-> start.v, end |-> end.v,
                 total |-> fileSize, contentLength |-> end.v - start.v + 1]

\* ------------------------------------------------- inputs of the normalizers
\* Sub-second parts a bound carries: none, 0.4 ms, 500 ms, 500.6 ms.  No value
\* lies exactly halfway between two milliseconds, where toFixed rounds by the
\* binary expansion of the double.
Fracs == {0, 4, 5000, 5006}
TimeVals == {s * Sec + f : s \in 0..MaxSec, f \in Fracs}
MsTimeVals == {s * Sec + f : s \in 0..MaxSec, f \in {0, 5000}} \cup {6}
FracDigits == {<<>>, <<5>>, <<0, 5>>, <<5, 0, 0>>}
TsVals == {Ts(h, h, s, d) : h \in {0, 1}, s \in {0, MaxSec}, d \in FracDigits}
SecFields == {None, BadStr, InfStr} \cup {Num(v) : v \in TimeVals} \cup TsVals
MsFields == {None, BadStr} \cup {Num(v) : v \in MsTimeVals}
NormInputs ==
  [start : SecFields, end : SecFields, startMs : MsFields, endMs : MsFields]
NormFns ==
  {"normalizeTimes", "normalizeTimesV1", "trimRange", "trimArgs", "trimCmds"}

\* Range requests on files of up to MaxFile bytes.
RangeParts == {None} \cup {Num(n) : n \in 0..MaxFile}
RangeInputs ==
  [fileSize : 0..MaxFile,
   range : {NoHeader} \cup {Bytes(f, l) : f \in RangeParts, l \in RangeParts}]
\* Whole numbers of milliseconds, in tenths of a millisecond.
RoundTripInputs ==
  {[ms |-> (h * 3600000 + m * 60000 + sec * 1000 + f) * Ms] :
     h \in {0, 1}, m \in {0, 59}, sec \in 0..MaxSec, f \in {0, 5, 50, 999}}
Pending == [ok |-> FALSE, err |-> "pending"]

\* ------------------------------------------------------------- the server
\* let inFlight = 0; const MAX_JOBS = 1;
MAX_JOBS == 1

Req == 1..NumReq
\* preview: POST /trim with preview set (the encoder is piped to the response).
\* download: POST /trim without preview, or GET /trim; the two handlers run
\* the same code (server.js 325-368 and 390-433).
Kinds == {"preview", "download"}

\* The time ranges the modelled requests carry: a millisecond pair with a
\* sub-second part, and an end before the start.
NoRange == [start |-> None, end |-> None, startMs |-> None, endMs |-> None]
ReqRanges ==
  { [NoRange EXCEPT !.startMs = Num(5000), !.endMs = Num(1 * Sec + 5000)],
    [NoRange EXCEPT !.start = Num(2 * Sec), !.end = Num(1 * Sec)] }

VARIABLES
  req,       \* per request: the handler's position and what belongs to it
  inFlight,  \* the gate counter
  srcFile,   \* the source file at path.join(os.tmpdir(), name)
  nfn, nq, nres,  \* a call of a normalizer: function, argument, result
  rev,           \* the revision of the source cache that runs: first | second
  disk,          \* the source files in the temp directory: path -> size
  lastTempFile,  \* let lastTempFile = null
  creq,          \* per request that resolves a source: position and outcome
  origin,        \* per source file: the assets whose bytes were written to it
  cap,           \* per caller of gate(): its release closure and calls of it
  previews,      \* the preview registry: handle id -> handle
  clock,         \* the time the registry's expiry is measured against
  retr,          \* the last retrieval of a preview and its answer
  now,           \* Date.now(), in milliseconds
  job,           \* per /trim job that writes an output file: its position
  outs           \* the output files in the temp directory: path -> openers

serverVars == <<req, inFlight, srcFile>>
normVars == <<nfn, nq, nres>>
cacheVars == <<rev, disk, lastTempFile, creq, origin>>
gateVars == <<cap>>
previewVars == <<previews, clock, retr>>
\* The state of the parts that stand beside the /trim pipeline, the
\* normalizers, the source cache and gate().
outVars == <<now, job, outs>>
lateVars == <<previewVars, outVars>>
\* What the /trim pipeline leaves alone.
offServer == <<normVars, cacheVars, gateVars, lateVars>>
vars ==
  <<req, inFlight, srcFile, nfn, nq, nres, rev, disk, lastTempFile, creq,
    origin, cap, previews, clock, retr, now, job, outs>>

\* A request slot:
\*   pc       idle | gate | meta | download | encode | done (handler returned)
\*   closed   the response's "close" event has been emitted
\*   enc      the encoder subprocess: none | running | exit0 | exitErr | killed
\*   outFile  the file at outPath: absent | partial | complete
\*   rd       the read stream of streamAndUnlink: none | open | closed
\*   unlinkCalls  calls of fs.unlink(outPath) made by cleanup
\*   status   the response status written (0: none yet)
\*   acquired / released  the slot was taken / calls of release()
\*   lookedUp / fetched   getFileMetadata / downloadFile was called
\*   err      the message of the Error thrown in the try block, by what it
\*            holds: none | metadata | download | range | stderr (the text the
\*            encoder wrote to stderr) | exit code ("code N")
\*   body     what the response body holds: none | Missing fileId. | video,
\*            or, after "Failed to trim video: ", the message err
IdleReq ==
  [pc |-> "idle", kind |-> "download", fileId |-> TRUE, q |-> NoRange,
   closed |-> FALSE, enc |-> "none", outFile |-> "absent", rd |-> "none",
   unlinkCalls |-> 0, status |-> 0, acquired |-> FALSE, released |-> 0,
   lookedUp |-> FALSE, fetched |-> FALSE, err |-> "none", body |-> "none"]

\* The source may be in the temp directory from an earlier run: the start-up
\* sweep (cleanupTempFiles) removes only names with a video extension.
ServerInit ==
  /\ req = [r \in Req |-> IdleReq]
  /\ inFlight = 0
  /\ srcFile \in {"absent", "complete"}

NormIdle == nfn = "none" /\ nq = NoRange /\ nres = Pending

\* The source cache.  Every modelled asset is larger than the threshold
\* (size > 100 * 1024 * 1024) and FileChunks long; local caching is enabled
\* (DISABLE_LOCAL_CACHE is false).
Assets == {"a", "b", "c"}
Revisions == {"first", "second"}
\* meta.name of an asset: two of the files have the same name.
NameOf(a) == IF a = "b" THEN "concert" ELSE "lecture"
\* safeName: the modelled names hold no character it replaces.
safeName(name) == name
\* A path in os.tmpdir(), by its file name: name in the first revision,
\* `${fileId}_${safeName(name)}` (cachePathFor) in the second.
cachePathFor(fileId, name) == <<fileId, safeName(name)>>
SourcePath(rv, a) ==
  IF rv = "first" THEN <<NameOf(a)>> ELSE cachePathFor(a, NameOf(a))
\* lastTempFile = null
Null == <<>>
\* An empty temp directory.
NoFiles == [p \in {} |-> 0]

CReq == 1..NumClients
\* A request that resolves a source:
\*   pc       idle | gate | meta | fetch (awaiting the download's response) |
\*            writing (the body is piped to the file) | encode | stream (the
\*            read stream of streamFile is piped to the response) | done
\*   route    video | trim;  preview: POST /trim with preview set
\*   written  chunks its write stream has written (0 once it is closed)
\*   linked   the file its write stream opened is still the one at the path
\*   input    what the encoder was given: none | url | a local file that was
\*            complete | incomplete | missing when the encoder was spawned
\*   fetches  calls of downloadFile
\*   holds    it holds a slot of the gate
IdleC ==
  [pc |-> "idle", route |-> "video", preview |-> FALSE, asset |-> "a",
   written |-> 0, linked |-> FALSE, input |-> "none", status |-> 0,
   err |-> "none", fetches |-> 0, holds |-> FALSE]

CacheIdle ==
  /\ rev = "first" /\ disk = NoFiles /\ lastTempFile = Null
  /\ creq = [r \in CReq |-> IdleC] /\ origin = [p \in {} |-> {}]

Callers == 1..NumCallers
\* A caller of gate(): st is none, waiting (in the loop of gate) or held (it
\* has the closure gate returned); calls counts its calls of that closure.
NoCap == [st |-> "none", calls |-> 0]
GateIdle == cap = [c \in Callers |-> NoCap]

\* The preview registry.  A handle is {id, filePath, sessionId, expiresAt};
\* the file of handle id is the one at filePath, which is left out.
\*   st  none (the id was never issued) | live | gone (destroyed)
\* A retrieval is kept with the id and the session it named, whether the
\* registry held the id then, and its answer.
Sessions == 1..NumSessions
HandleIds == 1..NumHandles
NoHandle == [st |-> "none", sessionId |-> 0, expiresAt |-> 0]
NoRetrieval == [id |-> 0, sessionId |-> 0, held |-> FALSE, result |-> "none"]
Gone == [st |-> "gone", sessionId |-> 0, expiresAt |-> 0]
PreviewIdle ==
  /\ previews = [h \in HandleIds |-> NoHandle]
  /\ clock = 0 /\ retr = NoRetrieval

\* The /trim jobs that write trimmed_<Date.now()>.mp4.  An output path is
\* the timestamp in its name; outs maps the paths that exist to the jobs
\* whose encoder has opened the file now at the path.
\*   pc       idle | gate | source (metadata and source are awaited) |
\*            encode | send (the file is being sent) | done
\*   preview  POST /trim with preview set (second revision)
\*   outPath  the timestamp of its output path (-1: none yet)
Jobs == 1..NumJobs
IdleJob ==
  [pc |-> "idle", preview |-> FALSE, outPath |-> 0 - 1, holds |-> FALSE,
   status |-> 0]
OutIdle ==
  /\ now = 0 /\ job = [j \in Jobs |-> IdleJob] /\ outs = [p \in {} |-> {}]

LateIdle == PreviewIdle /\ OutIdle

Init == ServerInit /\ NormIdle /\ CacheIdle /\ GateIdle /\ LateIdle

\* finally { release(); } : the handler returns.
Finally(r, rq) ==
  /\ inFlight' = inFlight - 1
  /\ req' = [req EXCEPT ![r] = [rq EXCEPT !.pc = "done", !.released = @ + 1]]

\* catch (err) { res.status(500).send("Failed to trim video: " + err.message) }
Catch(rq) == [rq EXCEPT !.status = 500, !.body = rq.err]

\* A handler whose catch block is not followed by the finally block.
ThrowNoFinally(r, rq) ==
  /\ req' = [req EXCEPT ![r] = [Catch(rq) EXCEPT !.pc = "done"]]
  /\ UNCHANGED inFlight

\* An exception inside the try block: catch, then finally.
Throw(r, rq) == Finally(r, Catch(rq))

\* gate(): the loop test fails, inFlight++, and the handler goes on to call
\* getFileMetadata.
Acquire(r, rq) ==
  /\ inFlight' = inFlight + 1
  /\ req' = [req EXCEPT ![r] =
       [rq EXCEPT !.pc = "meta", !.acquired = TRUE, !.lookedUp = TRUE]]

\* The response and the resources of an earlier request in this slot are gone.
Finished(rq) ==
  /\ rq.pc = "done" /\ rq.closed
  /\ rq.enc # "running" /\ rq.outFile = "absent"

\* A /trim request arrives: app.post("/trim") / app.get("/trim") up to the
\* first suspension.
Arrive(r) ==
  /\ req[r].pc = "idle" \/ Finished(req[r])
  /\ \E k \in Kinds, f \in BOOLEAN, q \in ReqRanges :
       LET rq == [IdleReq EXCEPT !.kind = k, !.fileId = f, !.q = q]
       IN  IF ~f
           THEN /\ req' = [req EXCEPT ![r] = [rq EXCEPT !.status = 400, !.body = "Missing fileId.", !.pc = "done"]]
                /\ UNCHANGED inFlight
           ELSE IF inFlight >= MAX_JOBS
           THEN /\ req' = [req EXCEPT ![r] = [rq EXCEPT !.pc = "gate"]]
                /\ UNCHANGED inFlight
           ELSE Acquire(r, rq)
  /\ UNCHANGED <<srcFile, offServer>>

\* A gate() that tests once (if instead of while): the waiter takes the
\* slot when its timer fires.
GateWakeNoRetest(r) ==
  /\ req[r].pc = "gate"
  /\ Acquire(r, req[r])
  /\ UNCHANGED <<srcFile, offServer>>

\* gate(): the 100 ms timer of a waiting request fires and the loop tests again.
GateWake(r) ==
  /\ req[r].pc = "gate"
  /\ IF inFlight >= MAX_JOBS
     THEN UNCHANGED <<req, inFlight>>
     ELSE Acquire(r, req[r])
  /\ UNCHANGED <<srcFile, offServer>>

\* streamAndUnlink: writeHead(200), the read stream is created and piped.
streamAndUnlink(rq) == [rq EXCEPT !.status = 200, !.body = "video", !.rd = "open"]

\* cleanup = () => fs.unlink(filePath, () => {})
cleanup(rq) == [rq EXCEPT !.outFile = "absent", !.unlinkCalls = @ + 1]

\* pipeFfmpegToResponse: spawn the encoder, writeHead(200), pipe its stdout.
pipeFfmpegToResponse(rq) ==
  [rq EXCEPT !.enc = "running", !.status = 200, !.body = "video"]

\* The handler from normalizeTimes to the spawn of the encoder.
AfterSource(r, rq) ==
  IF ~normalizeTimes(rq.q).ok THEN Throw(r, [rq EXCEPT !.err = "range"])
  ELSE IF rq.kind = "preview"
       THEN Finally(r, pipeFfmpegToResponse(rq))
       ELSE /\ req' = [req EXCEPT ![r] = [rq EXCEPT !.enc = "running", !.pc = "encode"]]
            /\ UNCHANGED inFlight

\* getFileMetadata answers; then fs.existsSync(srcPath).
MetaReturn(r) ==
  /\ req[r].pc = "meta"
  /\ \E ok \in BOOLEAN :
       IF ~ok THEN Throw(r, [req[r] EXCEPT !.err = "metadata"])
       ELSE IF srcFile = "absent"
            THEN /\ req' = [req EXCEPT ![r] =
                      [req[r] EXCEPT !.pc = "download", !.fetched = TRUE]]
                 /\ UNCHANGED inFlight
            ELSE AfterSource(r, req[r])
  /\ UNCHANGED <<srcFile, offServer>>

\* downloadFile ends: the response is not ok, the body stream errors after
\* the write stream was created, or the write stream finishes.
DownloadReturn(r) ==
  /\ req[r].pc = "download"
  /\ \E o \in {"notok", "error", "finish"} :
       CASE o = "notok"  -> /\ Throw(r, [req[r] EXCEPT !.err = "download"])
                            /\ UNCHANGED srcFile
         [] o = "error"  -> /\ Throw(r, [req[r] EXCEPT !.err = "download"])
                            /\ srcFile' = "partial"
         [] o = "finish" -> AfterSource(r, req[r]) /\ srcFile' = "complete"
  /\ UNCHANGED offServer

\* The encoder exits by itself and its "close" event is handled.  On the
\* preview path a nonzero exit is logged and the response, whose head was
\* written when the encoder was spawned, is ended.  On the download path the
\* promise is rejected with new Error(err || `code ${code}`), err being the
\* text collected from the encoder's stderr.
EncoderExit(r) ==
  /\ req[r].enc = "running"
  /\ \E code \in {0, 1} :
       IF req[r].kind = "preview"
       THEN /\ req' = [req EXCEPT ![r].enc = IF code = 0 THEN "exit0" ELSE "exitErr"]
            /\ UNCHANGED inFlight
       ELSE IF code = 0
            THEN Finally(r, streamAndUnlink(
                   [req[r] EXCEPT !.enc = "exit0", !.outFile = "complete"]))
            ELSE \E left \in {"absent", "partial"}, msg \in {"stderr", "exit code"} :
                   Throw(r, [req[r] EXCEPT !.enc = "exitErr", !.outFile = left,
                                           !.err = msg])
  /\ UNCHANGED <<srcFile, offServer>>

\* The read stream of streamAndUnlink ends and emits "close".  It ends only
\* while the response takes its data: piped into a response that has closed,
\* write() returns false, the stream is paused waiting for a "drain" that
\* never comes, and neither "end" nor "close" is emitted.
ReadClose(r) ==
  /\ req[r].rd = "open" /\ ~req[r].closed
  /\ req' = [req EXCEPT ![r] = cleanup([req[r] EXCEPT !.rd = "closed"])]
  /\ UNCHANGED <<inFlight, srcFile, offServer>>

\* The read stream emits "error", then "close".
ReadError(r) ==
  /\ req[r].rd = "open"
  /\ req' = [req EXCEPT ![r] = cleanup(cleanup([req[r] EXCEPT !.rd = "closed"]))]
  /\ UNCHANGED <<inFlight, srcFile, offServer>>

\* The response emits "close": the peer went away or the response was sent.
\* The listeners registered on it so far run: the kill of the preview
\* encoder (pipeFfmpegToResponse) and cleanup (streamAndUnlink).  A listener
\* registered after the event never runs.
ResClose(r) ==
  /\ req[r].pc # "idle" /\ ~req[r].closed
  /\ LET rq == [req[r] EXCEPT
                  !.closed = TRUE,
                  !.enc = IF req[r].kind = "preview" /\ @ = "running"
                          THEN "killed" ELSE @]
     IN  req' = [req EXCEPT ![r] = IF rq.rd # "none" THEN cleanup(rq) ELSE rq]
  /\ UNCHANGED <<inFlight, srcFile, offServer>>

Next ==
  \E r \in Req :
    \/ Arrive(r)
    \/ GateWake(r)
    \/ MetaReturn(r)
    \/ DownloadReturn(r)
    \/ EncoderExit(r)
    \/ ReadClose(r)
    \/ ReadError(r)
    \/ ResClose(r)

Spec == Init /\ [][Next]_vars

\* The server's own steps and the network/disk answers it waits for happen;
\* an encoder need not exit and a client need not close.
LiveSpec ==
  /\ Spec
  /\ \A r \in Req :
       /\ WF_vars(GateWake(r))
       /\ WF_vars(MetaReturn(r))
       /\ WF_vars(DownloadReturn(r))
       /\ WF_vars(ReadClose(r))

\* Moreover every encoder exits.
FairSpec == LiveSpec /\ \A r \in Req : WF_vars(EncoderExit(r))

\* ------------------------------------------------------ the normalizers
NormInit ==
  /\ req = [r \in Req |-> IdleReq] /\ inFlight = 0 /\ srcFile = "absent"
  /\ CacheIdle /\ GateIdle /\ LateIdle
  /\ nres = Pending
  /\ \/ nfn \in NormFns /\ nq \in NormInputs
     \/ nfn = "streamFile" /\ nq \in RangeInputs
     \/ nfn = "msRoundTrip" /\ nq \in RoundTripInputs

CallNormalizeTimes ==
  /\ nfn = "normalizeTimes" /\ nres = Pending
  /\ nres' = normalizeTimes(nq)
  /\ UNCHANGED <<nfn, nq, serverVars, cacheVars, gateVars, lateVars>>

CallNormalizeTimesV1 ==
  /\ nfn = "normalizeTimesV1" /\ nres = Pending
  /\ nres' = normalizeTimesV1(nq)
  /\ UNCHANGED <<nfn, nq, serverVars, cacheVars, gateVars, lateVars>>

CallTrimRange ==
  /\ nfn = "trimRange" /\ nres = Pending
  /\ nres' = trimRange(nq)
  /\ UNCHANGED <<nfn, nq, serverVars, cacheVars, gateVars, lateVars>>

\* A /trim request of the first revision with any mode hint.
CallTrimArgs ==
  /\ nfn = "trimArgs" /\ nres = Pending
  /\ \E mode \in ModeHints : nres' = trimArgs(nq, mode)
  /\ UNCHANGED <<nfn, nq, serverVars, cacheVars, gateVars, lateVars>>

\* A /trim request of the second revision in any state of the cache.
CallTrimCmds ==
  /\ nfn = "trimCmds" /\ nres = Pending
  /\ \E cache \in CacheStates : nres' = trimCmds(nq, cache)
  /\ UNCHANGED <<nfn, nq, serverVars, cacheVars, gateVars, lateVars>>

CallStreamFile ==
  /\ nfn = "streamFile" /\ nres = Pending
  /\ nres' = streamFile(nq.fileSize, nq.range)
  /\ UNCHANGED <<nfn, nq, serverVars, cacheVars, gateVars, lateVars>>

CallMsRoundTrip ==
  /\ nfn = "msRoundTrip" /\ nres = Pending
  /\ nres' = msRoundTrip(nq.ms)
  /\ UNCHANGED <<nfn, nq, serverVars, cacheVars, gateVars, lateVars>>

NormNext ==
  \/ CallNormalizeTimes \/ CallNormalizeTimesV1 \/ CallTrimRange
  \/ CallTrimArgs \/ CallTrimCmds \/ CallStreamFile \/ CallMsRoundTrip

NormSpec == NormInit /\ [][NormNext]_vars

\* ---------------------------------------------------------- source cache
offCache == <<req, srcFile, normVars, gateVars, lateVars>>

PathOf(c) == SourcePath(rev, c.asset)

\* fs.existsSync(p)
existsSync(d, p) == p \in DOMAIN d

\* isCompleteFile(p, expectedSize): statSync(p).size === expectedSize, false
\* when statSync throws.
isCompleteFile(d, p, expectedSize) == p \in DOMAIN d /\ d[p] = expectedSize

\* fs.unlink(p) / fs.unlinkSync(p) with the error ignored.
unlink(d, p) == [q \in DOMAIN d \ {p} |-> d[q]]

\* fs.createWriteStream(p): the file is created, or truncated if it exists.
createWriteStream(d, p) ==
  [q \in DOMAIN d \cup {p} |-> IF q = p THEN 0 ELSE d[q]]

\* After unlink(p) the write streams open on p write to a file that has no
\* name any more.
Detach(cr, p) ==
  [x \in CReq |->
     IF cr[x].pc = "writing" /\ PathOf(cr[x]) = p
     THEN [cr[x] EXCEPT !.linked = FALSE] ELSE cr[x]]

\* A downloadFile that reports the size mismatch and leaves the file.
keepPartial(d, p) == d

\* downloadFile, second revision: try { fs.unlinkSync(filePath); } catch {}
nukePartial(d, p) == unlink(d, p)

\* A handler that has returned: what is kept of it is its outcome.
Outcome(c, status, msg) ==
  [IdleC EXCEPT !.pc = "done", !.status = status, !.err = msg,
                !.input = c.input, !.fetches = c.fetches]

\* The handler's catch block answers 500; finally releases the slot.
CacheFail(r, cr, msg) ==
  /\ creq' = [cr EXCEPT ![r] = Outcome(@, 500, msg)]
  /\ inFlight' = IF cr[r].holds THEN inFlight - 1 ELSE inFlight

\* The handler has its source file (d is the disk it leaves): /video sets
\* lastTempFile and calls streamFile, whose statSync throws if the file is
\* gone and which otherwise pipes a read stream of the file to the response;
\* /trim spawns the encoder on the path.
Resolved(r, cr, d) ==
  LET c == cr[r]
      p == PathOf(c)
  IN  IF c.route = "video"
      THEN /\ lastTempFile' = p
           /\ IF existsSync(d, p)
              THEN /\ creq' = [cr EXCEPT ![r] =
                        [@ EXCEPT !.pc = "stream", !.status = 200,
                                  !.written = 0, !.linked = FALSE]]
                   /\ UNCHANGED inFlight
              ELSE CacheFail(r, cr, "stat")
      ELSE /\ creq' = [cr EXCEPT ![r] =
                [@ EXCEPT !.pc = "encode", !.written = 0, !.linked = FALSE,
                          !.input = IF ~existsSync(d, p) THEN "missing"
                                    ELSE IF d[p] = FileChunks THEN "complete"
                                    ELSE "incomplete"]]
           /\ UNCHANGED <<inFlight, lastTempFile>>

\* A request arrives: GET /video/:fileId, or /trim, which in the first
\* revision passes the gate.  The preview flag changes the source a /trim
\* handler uses in the second revision only.  Requests are interchangeable:
\* a new one is tracked in the first slot that is free.
CacheArrive(r) ==
  /\ creq[r].pc \in {"idle", "done"}
  /\ \A x \in CReq : x < r => creq[x].pc \notin {"idle", "done"}
  /\ \E route \in {"video", "trim"}, a \in Assets, pv \in BOOLEAN :
       /\ pv => (route = "trim" /\ rev = "second")
       /\ LET c == [IdleC EXCEPT !.route = route, !.asset = a, !.preview = pv]
          IN  IF route = "trim" /\ rev = "first"
              THEN IF inFlight >= MAX_JOBS
                   THEN /\ creq' = [creq EXCEPT ![r] = [c EXCEPT !.pc = "gate"]]
                        /\ UNCHANGED inFlight
                   ELSE /\ creq' = [creq EXCEPT ![r] =
                             [c EXCEPT !.pc = "meta", !.holds = TRUE]]
                        /\ inFlight' = inFlight + 1
              ELSE /\ creq' = [creq EXCEPT ![r] = [c EXCEPT !.pc = "meta"]]
                   /\ UNCHANGED inFlight
  /\ UNCHANGED <<rev, disk, origin, lastTempFile, offCache>>

\* gate(): the timer of a waiting /trim request fires.
CacheGateWake(r) ==
  /\ creq[r].pc = "gate"
  /\ IF inFlight >= MAX_JOBS
     THEN UNCHANGED <<creq, inFlight>>
     ELSE /\ creq' = [creq EXCEPT ![r] = [@ EXCEPT !.pc = "meta", !.holds = TRUE]]
          /\ inFlight' = inFlight + 1
  /\ UNCHANGED <<rev, disk, origin, lastTempFile, offCache>>

\* getFileMetadata answers and the handler runs to its next suspension:
\* /video unlinks lastTempFile if it is another file that exists; then the
\* local copy is tested (existsSync in the first revision, isCompleteFile in
\* the second) and either used or downloaded; a preview of the second
\* revision without a complete copy gives the encoder the URL.
CacheMeta(r) ==
  /\ creq[r].pc = "meta"
  /\ \E ok \in BOOLEAN :
       LET c == creq[r]
           p == PathOf(c)
           evict == /\ c.route = "video" /\ lastTempFile # Null
                    /\ lastTempFile # p /\ existsSync(disk, lastTempFile)
           d == IF evict THEN unlink(disk, lastTempFile) ELSE disk
           cr == IF evict THEN Detach(creq, lastTempFile) ELSE creq
           cached == IF rev = "first" THEN existsSync(d, p)
                     ELSE isCompleteFile(d, p, FileChunks)
       IN  IF ~ok
           THEN /\ CacheFail(r, creq, "metadata")
                /\ UNCHANGED <<disk, origin, lastTempFile>>
           ELSE /\ disk' = d
                /\ origin' = IF evict THEN unlink(origin, lastTempFile) ELSE origin
                /\ IF cached THEN Resolved(r, cr, d)
                   ELSE IF c.route = "trim" /\ c.preview
                   THEN /\ creq' = [cr EXCEPT ![r] =
                             [@ EXCEPT !.pc = "encode", !.input = "url"]]
                        /\ UNCHANGED <<inFlight, lastTempFile>>
                   ELSE /\ creq' = [cr EXCEPT ![r] =
                             [@ EXCEPT !.pc = "fetch", !.fetches = @ + 1]]
                        /\ UNCHANGED <<inFlight, lastTempFile>>
  /\ UNCHANGED <<rev, offCache>>

\* downloadFile: fetch(url) answers; if ok the write stream is created and
\* the body piped into it.
CacheFetchResponse(r) ==
  /\ creq[r].pc = "fetch"
  /\ \E ok \in BOOLEAN :
       IF ~ok
       THEN CacheFail(r, creq, "download") /\ UNCHANGED <<disk, origin>>
       ELSE /\ disk' = createWriteStream(disk, PathOf(creq[r]))
            /\ origin' = [q \in DOMAIN origin \cup {PathOf(creq[r])} |->
                            IF q = PathOf(creq[r]) THEN {} ELSE origin[q]]
            /\ creq' = [creq EXCEPT ![r] =
                 [@ EXCEPT !.pc = "writing", !.written = 0, !.linked = TRUE]]
            /\ UNCHANGED inFlight
  /\ UNCHANGED <<rev, lastTempFile, offCache>>

\* The write stream writes the next chunk at its own position.
CacheWrite(r) ==
  /\ creq[r].pc = "writing" /\ creq[r].written < FileChunks
  /\ LET n == creq[r].written + 1
         p == PathOf(creq[r])
     IN  /\ creq' = [creq EXCEPT ![r].written = n]
         /\ disk' = IF creq[r].linked /\ disk[p] < n
                    THEN [disk EXCEPT ![p] = n] ELSE disk
         /\ origin' = IF creq[r].linked
                      THEN [origin EXCEPT ![p] = @ \cup {creq[r].asset}]
                      ELSE origin
  /\ UNCHANGED <<rev, lastTempFile, inFlight, offCache>>

\* res.body emits "error": the promise is rejected, the file stays.
CacheBodyError(r) ==
  /\ creq[r].pc = "writing"
  /\ CacheFail(r, creq, "stream")
  /\ UNCHANGED <<rev, disk, origin, lastTempFile, offCache>>

\* The body ends, after all chunks or fewer, and the write stream emits
\* "finish".  The first revision goes on with the file; the second verifies
\* its size and otherwise removes it and throws "Partial download detected".
CacheFinish(r) ==
  /\ creq[r].pc = "writing"
  /\ LET p == PathOf(creq[r])
     IN  IF rev = "first" \/ isCompleteFile(disk, p, FileChunks)
         THEN Resolved(r, creq, disk) /\ UNCHANGED <<disk, origin>>
         ELSE /\ disk' = nukePartial(disk, p)
              /\ origin' = [q \in DOMAIN disk' |-> origin[q]]
              /\ CacheFail(r, Detach(creq, p), "integrity")
              /\ UNCHANGED lastTempFile
  /\ UNCHANGED <<rev, offCache>>

\* The encoder of a /trim request exits; the handler answers and, in the
\* first revision, releases its slot.
CacheEncoderExit(r) ==
  /\ creq[r].pc = "encode"
  /\ \E code \in {0, 1} :
       /\ creq[r].input = "missing" => code = 1
       /\ creq' = [creq EXCEPT ![r] =
            IF code = 0 THEN Outcome(@, 200, "none")
            ELSE Outcome(@, 500, "encoder")]
       /\ inFlight' = IF creq[r].holds THEN inFlight - 1 ELSE inFlight
  /\ UNCHANGED <<rev, disk, origin, lastTempFile, offCache>>

\* The read stream of streamFile ends: the response is complete or the
\* client went away.
CacheStreamClose(r) ==
  /\ creq[r].pc = "stream"
  /\ creq' = [creq EXCEPT ![r] = Outcome(@, 200, "none")]
  /\ UNCHANGED <<rev, disk, origin, lastTempFile, inFlight, offCache>>

CacheNext2 ==
  \E r \in CReq :
    \/ CacheArrive(r)
    \/ CacheMeta(r)
    \/ CacheFetchResponse(r)
    \/ CacheWrite(r)
    \/ CacheBodyError(r)
    \/ CacheFinish(r)
    \/ CacheEncoderExit(r)
    \/ CacheStreamClose(r)

CacheNext1 == CacheNext2 \/ \E r \in CReq : CacheGateWake(r)

CacheInit1 ==
  /\ req = [r \in Req |-> IdleReq] /\ inFlight = 0 /\ srcFile = "absent"
  /\ NormIdle /\ GateIdle /\ LateIdle
  /\ rev = "first" /\ disk = NoFiles /\ lastTempFile = Null
  /\ creq = [r \in CReq |-> IdleC] /\ origin = [p \in {} |-> {}]

CacheInit2 ==
  /\ req = [r \in Req |-> IdleReq] /\ inFlight = 0 /\ srcFile = "absent"
  /\ NormIdle /\ GateIdle /\ LateIdle
  /\ rev = "second" /\ disk = NoFiles /\ lastTempFile = Null
  /\ creq = [r \in CReq |-> IdleC] /\ origin = [p \in {} |-> {}]

\* The source cache of the first revision (server.js 210-314) and of the
\* second (server.js 588-723).
CacheSpec1 == CacheInit1 /\ [][CacheNext1]_vars
CacheSpec2 == CacheInit2 /\ [][CacheNext2]_vars

\* ------------------------------------------------------------------ gate()
\* gate() is called: the loop test, then inFlight++ and the closure.
GateCall(c) ==
  /\ cap[c].st = "none" \/ (cap[c].st = "held" /\ cap[c].calls > 0)
  /\ IF inFlight >= MAX_JOBS
     THEN cap' = [cap EXCEPT ![c] = [st |-> "waiting", calls |-> 0]]
          /\ UNCHANGED inFlight
     ELSE cap' = [cap EXCEPT ![c] = [st |-> "held", calls |-> 0]]
          /\ inFlight' = inFlight + 1
  /\ UNCHANGED <<req, srcFile, normVars, cacheVars, lateVars>>

\* The timer of a waiting caller fires and the loop tests again.
GateTimer(c) ==
  /\ cap[c].st = "waiting"
  /\ IF inFlight >= MAX_JOBS
     THEN UNCHANGED <<cap, inFlight>>
     ELSE cap' = [cap EXCEPT ![c] = [st |-> "held", calls |-> 0]]
          /\ inFlight' = inFlight + 1
  /\ UNCHANGED <<req, srcFile, normVars, cacheVars, lateVars>>

\* The closure gate() returned is called: () => { inFlight--; }
ReleaseCall(c) ==
  /\ cap[c].st = "held" /\ cap[c].calls < MaxReleaseCalls
  /\ inFlight > 0 - MaxDebt
  /\ inFlight' = inFlight - 1
  /\ cap' = [cap EXCEPT ![c].calls = @ + 1]
  /\ UNCHANGED <<req, srcFile, normVars, cacheVars, lateVars>>

GateNext == \E c \in Callers : GateCall(c) \/ GateTimer(c) \/ ReleaseCall(c)

\* gate() and its closures under callers that may call a closure again.
GateInit ==
  /\ req = [r \in Req |-> IdleReq] /\ inFlight = 0 /\ srcFile = "absent"
  /\ NormIdle /\ CacheIdle /\ GateIdle /\ LateIdle
GateSpec == GateInit /\ [][GateNext]_vars

\* -------------------------------------------------------- preview registry
offPreview == <<serverVars, normVars, cacheVars, gateVars, outVars>>

\* The time a registered preview lives.
PreviewTTL == 2

\* A finished preview is registered for session s under a fresh id, with an
\* expiry timestamp.
RegisterPreview(s) ==
  /\ \E h \in HandleIds :
       /\ previews[h].st = "none"
       /\ \A x \in HandleIds : x < h => previews[x].st # "none"
       /\ previews' = [previews EXCEPT ![h] =
            [st |-> "live", sessionId |-> s, expiresAt |-> clock + PreviewTTL]]
  /\ UNCHANGED <<clock, retr, offPreview>>

\* Time passes.
Tick ==
  /\ clock < MaxClock
  /\ clock' = clock + 1
  /\ UNCHANGED <<previews, retr, offPreview>>

\* The background timer of a handle runs, at its expiry or later: the
\* handle is destroyed and its file deleted.
ExpiryTimer(h) ==
  /\ previews[h].st = "live" /\ clock >= previews[h].expiresAt
  /\ previews' = [previews EXCEPT ![h] = Gone]
  /\ UNCHANGED <<clock, retr, offPreview>>

\* Explicit eviction of a handle.
EvictPreview(h) ==
  /\ previews[h].st = "live"
  /\ previews' = [previews EXCEPT ![h] = Gone]
  /\ UNCHANGED <<clock, retr, offPreview>>

\* A retrieval that does not compare sessions.
AnswerIgnoringSession(handle, s, at) ==
  IF handle.st # "live" \/ at >= handle.expiresAt THEN "NotFound"
  ELSE "served"

\* The answer of the retrieval interface to session s asking for a handle
\* at time at: NotFound for an unknown or expired id, Forbidden for another
\* session, else the file (in full or the byte range asked for).
RetrieveAnswer(handle, s, at) ==
  IF handle.st # "live" \/ at >= handle.expiresAt THEN "NotFound"
  ELSE IF handle.sessionId # s THEN "Forbidden"
  ELSE "served"

\* RetrievePreview(handleId, sessionId, byteRange?)
RetrievePreview(h, s) ==
  /\ retr' = [id |-> h, sessionId |-> s, held |-> previews[h].st = "live",
              result |-> RetrieveAnswer(previews[h], s, clock)]
  /\ UNCHANGED <<previews, clock, offPreview>>

PreviewNext ==
  \/ \E s \in Sessions : RegisterPreview(s)
  \/ Tick
  \/ \E h \in HandleIds : ExpiryTimer(h) \/ EvictPreview(h)
  \/ \E h \in HandleIds, s \in Sessions : RetrievePreview(h, s)

PreviewInit ==
  /\ req = [r \in Req |-> IdleReq] /\ inFlight = 0 /\ srcFile = "absent"
  /\ NormIdle /\ CacheIdle /\ GateIdle /\ LateIdle

PreviewSpec == PreviewInit /\ [][PreviewNext]_vars

\* ------------------------------------------------------------ output files
\* The /trim handlers from the request to the removal of the output file:
\* the download path of the first revision (behind the gate) and both paths
\* of the second (no gate).
offOut == <<req, srcFile, normVars, gateVars, previewVars, disk, lastTempFile, creq, origin>>

\* The clock advances by a millisecond.
OutTick ==
  /\ now < MaxNow
  /\ now' = now + 1
  /\ UNCHANGED <<job, outs, rev, inFlight, offOut>>

\* finally { release(); } of the first revision.
JobRelease(j) == IF job[j].holds THEN inFlight' = inFlight - 1 ELSE UNCHANGED inFlight

\* A /trim request arrives; in the first revision it passes the gate.
JobArrive(j) ==
  /\ job[j].pc \in {"idle", "done"}
  /\ \E pv \in BOOLEAN :
       /\ pv => rev = "second"
       /\ LET c == [IdleJob EXCEPT !.preview = pv]
          IN  IF rev = "first"
              THEN IF inFlight >= MAX_JOBS
                   THEN /\ job' = [job EXCEPT ![j] = [c EXCEPT !.pc = "gate"]]
                        /\ UNCHANGED inFlight
                   ELSE /\ job' = [job EXCEPT ![j] =
                             [c EXCEPT !.pc = "source", !.holds = TRUE]]
                        /\ inFlight' = inFlight + 1
              ELSE /\ job' = [job EXCEPT ![j] = [c EXCEPT !.pc = "source"]]
                   /\ UNCHANGED inFlight
  /\ UNCHANGED <<now, outs, rev, offOut>>

\* gate(): the timer of a waiting job fires.
JobGateWake(j) ==
  /\ job[j].pc = "gate"
  /\ IF inFlight >= MAX_JOBS
     THEN UNCHANGED <<job, inFlight>>
     ELSE /\ job' = [job EXCEPT ![j] = [@ EXCEPT !.pc = "source", !.holds = TRUE]]
          /\ inFlight' = inFlight + 1
  /\ UNCHANGED <<now, outs, rev, offOut>>

\* Metadata and source are there (or the handler throws): the times are
\* parsed, outPath is named after Date.now() and the encoder is started with
\* -y outPath, which creates the file or truncates the one that is there.
JobStart(j) ==
  /\ job[j].pc = "source"
  /\ \E ok \in BOOLEAN :
       IF ~ok
       THEN /\ job' = [job EXCEPT ![j] = [@ EXCEPT !.pc = "done", !.status = 500,
                                                   !.holds = FALSE]]
            /\ JobRelease(j)
            /\ UNCHANGED outs
       ELSE /\ job' = [job EXCEPT ![j] = [@ EXCEPT !.pc = "encode", !.outPath = now]]
            /\ outs' = [p \in DOMAIN outs \cup {now} |->
                          IF p = now
                          THEN (IF now \in DOMAIN outs THEN outs[now] ELSE {}) \cup {j}
                          ELSE outs[p]]
            /\ UNCHANGED inFlight
  /\ UNCHANGED <<now, rev, offOut>>

\* The encoder exits, more than a millisecond after outPath was named.  On a
\* nonzero exit the handler answers 500 and the file stays.  On exit 0 the
\* first revision calls streamAndUnlink and releases the slot; the second
\* sends a preview from memory and unlinks the file at once, and hands a
\* download to res.download.  A file that is gone makes the send fail.
JobEncoderExit(j) ==
  /\ job[j].pc = "encode" /\ now > job[j].outPath
  /\ \E code \in {0, 1} :
       LET p == job[j].outPath
           there == p \in DOMAIN outs
       IN  IF code # 0 \/ (rev = "second" /\ job[j].preview /\ ~there)
           THEN /\ job' = [job EXCEPT ![j] = [@ EXCEPT !.pc = "done", !.status = 500,
                                                       !.holds = FALSE]]
                /\ UNCHANGED outs
           ELSE IF rev = "second" /\ job[j].preview
           THEN /\ job' = [job EXCEPT ![j] = [@ EXCEPT !.pc = "done", !.status = 200]]
                /\ outs' = unlink(outs, p)
           ELSE /\ job' = [job EXCEPT ![j] = [@ EXCEPT !.pc = "send", !.status = 200,
                                                       !.holds = FALSE]]
                /\ UNCHANGED outs
  /\ JobRelease(j)
  /\ UNCHANGED <<now, rev, offOut>>

\* The transfer of the output file is over (sent, failed, or the client went
\* away): fs.unlink(outPath).
JobSendClose(j) ==
  /\ job[j].pc = "send"
  /\ job' = [job EXCEPT ![j].pc = "done"]
  /\ outs' = unlink(outs, job[j].outPath)
  /\ UNCHANGED <<now, rev, inFlight, offOut>>

OutNext2 ==
  \/ OutTick
  \/ \E j \in Jobs :
       \/ JobArrive(j) \/ JobStart(j) \/ JobEncoderExit(j) \/ JobSendClose(j)

OutNext1 == OutNext2 \/ \E j \in Jobs : JobGateWake(j)

OutInit1 ==
  /\ req = [r \in Req |-> IdleReq] /\ inFlight = 0 /\ srcFile = "absent"
  /\ NormIdle /\ CacheIdle /\ GateIdle /\ LateIdle

OutInit2 ==
  /\ req = [r \in Req |-> IdleReq] /\ inFlight = 0 /\ srcFile = "absent"
  /\ NormIdle /\ GateIdle /\ LateIdle
  /\ rev = "second" /\ disk = NoFiles /\ lastTempFile = Null
  /\ creq = [r \in CReq |-> IdleC] /\ origin = [p \in {} |-> {}]

\* The output files of the first revision (server.js 326-368, 390-433) and
\* of the second (server.js 733-751, 781-794).
OutSpec1 == OutInit1 /\ [][OutNext1]_vars
OutSpec2 == OutInit2 /\ [][OutNext2]_vars

\* ------------------------------------------------------------------ claims
Running(r) == req[r].enc = "running"
Holding(r) == req[r].acquired /\ req[r].released = 0

\* C1: with MAX_JOBS = 1 no two encoder subprocesses are running at the
\* same time, whatever the interleaving of /trim requests, the streamed
\* preview path included.
C1_NoOverlappingEncoders == Cardinality({r \in Req : Running(r)}) <= MAX_JOBS

\* C2: every /trim request that acquired a gate slot releases it exactly
\* once on every exit path: inFlight counts exactly the requests that hold a
\* slot (so it is 0 when none does), a handler that has returned has called
\* release() once if it acquired and never otherwise, and a handler still
\* inside its try block has not released.
C2_SlotReleasedExactlyOnce ==
  /\ inFlight = Cardinality({r \in Req : Holding(r)})
  /\ \A r \in Req :
       /\ req[r].released <= 1
       /\ req[r].released = 1 => req[r].acquired
       /\ req[r].pc = "done" /\ req[r].acquired => req[r].released = 1
       /\ req[r].pc \in {"meta", "download", "encode"} => Holding(r)
       /\ req[r].pc \in {"idle", "gate"} => ~req[r].acquired

\* C2 witness: one request has left through the encoder's nonzero exit and
\* another through the invalid range, each having released, and the counter
\* is back at 0.
C2_Witness ==
  /\ inFlight = 0
  /\ \E r1, r2 \in Req :
       /\ req[r1].pc = "done" /\ req[r1].enc = "exitErr" /\ req[r1].kind = "download"
       /\ req[r1].acquired /\ req[r1].released = 1
       /\ req[r2].pc = "done" /\ ~normalizeTimes(req[r2].q).ok
       /\ req[r2].acquired /\ req[r2].released = 1 /\ req[r2].status = 500

\* C3: an encoder that does not exit on its own is eventually terminated
\* (a running encoder always ceases to run).
C3_EncoderDeadline == \A r \in Req : Running(r) ~> ~Running(r)

\* C4: when the client connection of a request closes while that request's
\* encoder is running, the encoder is terminated and the request no longer
\* holds a gate slot.
C4_KillOnClientClose ==
  [][\A r \in Req :
       (Running(r) /\ ~req[r].closed /\ req'[r].closed)
         => (req'[r].enc # "running" /\ ~(req'[r].acquired /\ req'[r].released = 0))]_vars

\* C5: after an encode job writing to a temp output file has failed and its
\* handler has returned, no output file of that job is left on disk.
C5_FailedJobLeavesNoOutput ==
  \A r \in Req :
    (req[r].pc = "done" /\ req[r].kind = "download" /\ req[r].enc = "exitErr")
      => req[r].outFile = "absent"

\* C6: a finished output file handed to streamAndUnlink is eventually
\* removed from disk, on every exit path.
C6_StreamedFileRemoved ==
  \A r \in Req : (req[r].rd = "open") ~> (req[r].outFile = "absent")

\* C7: every caller of gate() that waits is eventually admitted, whatever
\* requests arrive later.
C7_NoStarvation ==
  \A r \in Req : (req[r].pc = "gate") ~> (req[r].pc # "gate")

\* C8: a /trim request whose range is invalid acquires no gate slot and
\* causes no metadata lookup and no source download.
C8_InvalidRangeTouchesNothing ==
  \A r \in Req :
    (req[r].pc # "idle" /\ req[r].fileId /\ ~normalizeTimes(req[r].q).ok)
      => (~req[r].acquired /\ ~req[r].lookedUp /\ ~req[r].fetched)

\* The time a request field is meant to denote: a timestamp's fraction is a
\* decimal fraction of a second (".5" is 500 ms, ".05" is 50 ms).
FracTenths(d) ==
  DigitsValue(d) * (CASE Len(d) = 1 -> 100 [] Len(d) = 2 -> 10 [] OTHER -> 1) * Ms
Denotes(f) ==
  CASE f.t = "num" -> Fin(f.v)
    [] f.t = "ts"  -> Fin((f.hh * 3600 + f.mm * 60 + f.ss) * Sec + FracTenths(f.frac))
    [] OTHER       -> NaN

\* Inputs that carry one representation of the range, both bounds alike.
SecondsOnly(q) ==
  /\ q.startMs = None /\ q.endMs = None
  /\ q.start.t = q.end.t \/ ~Denotes(q.start).fin \/ ~Denotes(q.end).fin
MsOnly(q) == q.start = None /\ q.end = None

\* What C9 asks of a result res for the bounds s and e.  Bounds that differ
\* by less than a millisecond and round to the same millisecond are left
\* open here: end > start holds of the input and fails of the rounded range.
RangeContract(s, e, res) ==
  IF s.fin /\ e.fin /\ toFixed3(e.v) > toFixed3(s.v)
  THEN res.ok /\ res.duration = toFixed3(e.v) - toFixed3(s.v)
  ELSE (~s.fin \/ ~e.fin \/ e.v <= s.v) => ~res.ok

\* C9: for finite bounds with end > start the normalizer returns the
\* duration end - start at millisecond precision, and for end <= start or a
\* non-finite bound it fails (normalizeTimes on seconds or milliseconds,
\* parseTimeInputs with the handler's check on every representation).
C9_DurationOrInvalidRange ==
  (nres # Pending) =>
    /\ (nfn = "trimRange" /\ SecondsOnly(nq))
         => RangeContract(Denotes(nq.start), Denotes(nq.end), nres)
    /\ (nfn \in {"trimRange", "normalizeTimes"} /\ MsOnly(nq))
         => RangeContract(Denotes(nq.startMs), Denotes(nq.endMs), nres)
    /\ (nfn = "normalizeTimes" /\ SecondsOnly(nq)
          /\ nq.start.t # "ts" /\ nq.end.t # "ts")
         => RangeContract(Denotes(nq.start), Denotes(nq.end), nres)

\* C10: normalizeTimes returns forcePrecise = TRUE exactly when one of the
\* two bounds used for the trim (start and end after rounding to the
\* millisecond) has a non-zero sub-second part.
C10_ForcePreciseIffSubSecond ==
  (nfn \in {"normalizeTimes", "normalizeTimesV1"} /\ nres.ok)
    => (nres.forcePrecise <=>
          (nres.startSec % Sec # 0 \/ (nres.startSec + nres.duration) % Sec # 0))

\* A bound of the range handed to the encoder has a sub-second part.
SubSecondBound(res) ==
  res.startSec % Sec # 0 \/ (res.startSec + res.duration) % Sec # 0

\* C11: in the /trim handlers of the first revision the job is Precise
\* (accurate seek, re-encoding) exactly when forcePrecise is true or the mode
\* hint is "precise", on the preview and on the download path; and whatever
\* the hint, "copy" included, a range with a sub-second bound is never
\* trimmed in Copy mode.
C11_PreciseIffForcedOrHinted ==
  (nfn = "trimArgs" /\ nres.ok) =>
    /\ nres.precise <=> (normalizeTimes(nq).forcePrecise \/ nres.mode = "precise")
    /\ (nres.preview.cv = "copy") <=> ~nres.precise
    /\ (nres.download.cv = "copy") <=> ~nres.precise
    /\ SubSecondBound(nres)
         => (nres.preview.cv # "copy" /\ nres.download.cv # "copy")

\* C11 witness: a "copy" hint on a range that starts off a whole second, and
\* the job is Precise.
C11_Witness ==
  /\ nfn = "trimArgs" /\ nres.ok /\ nres.mode = "copy"
  /\ nres.startSec % Sec # 0 /\ nres.precise /\ nres.download.cv = "libx264"

\* C16: for a request with a Range header streamFile answers 206 with
\* Content-Range bytes start-end/fileSize, 0 <= start <= end <= fileSize - 1,
\* and Content-Length end - start + 1, an open-ended range ending at
\* fileSize - 1; without a Range header it answers the full file with
\* Content-Length fileSize.
C16_RangeResponse ==
  (nfn = "streamFile" /\ nres # Pending) =>
    IF nq.range.hdr = "none"
    THEN nres.status = 200 /\ nres.contentLength = nq.fileSize
    ELSE /\ nres.status = 206
         /\ 0 <= nres.start /\ nres.start <= nres.end
         /\ nres.end <= nq.fileSize - 1
         /\ nres.total = nq.fileSize
         /\ nres.contentLength = nres.end - nres.start + 1
         /\ nq.range.last = None => nres.end = nq.fileSize - 1

\* The options of an argument list that decide the cut: the input, the
\* start, the duration and the mode (seek placement, copy or re-encode).
CutOf(args) == <<args.i, args.ss, args.t, args.seek, args.cv = "copy">>

\* The options that decide the encoding: everything but the output.
SettingsOf(args) ==
  <<args.cv, args.preset, args.crf, args.ba, args.movflags>>

\* C17 as stated: for the same asset, range and mode hint the preview and
\* the download hand the encoder the same source, start, duration and mode
\* and the same encode settings.
C17_PreviewIdenticalToDownload ==
  /\ (nfn = "trimArgs" /\ nres.ok) =>
       /\ CutOf(nres.preview) = CutOf(nres.download)
       /\ SettingsOf(nres.preview) = SettingsOf(nres.download)
  /\ (nfn = "trimCmds" /\ nres.ok) =>
       /\ CutOf(nres.preview) = CutOf(nres.download)
       /\ CutOf(nres.preview) = CutOf(nres.downloadGet)
       /\ SettingsOf(nres.preview) = SettingsOf(nres.download)
       /\ SettingsOf(nres.preview) = SettingsOf(nres.downloadGet)

\* C17 amended: the preview and the download hand the encoder the same
\* start, duration and mode, and the same source except that the second
\* revision reads a preview of an asset not completely cached over HTTP;
\* the encode settings need not agree.
C17_SameCutBothPaths ==
  /\ (nfn = "trimArgs" /\ nres.ok) =>
       /\ CutOf(nres.preview) = CutOf(nres.download)
       /\ nres.preview.ss = nres.startSec /\ nres.preview.t = nres.duration
  /\ (nfn = "trimCmds" /\ nres.ok) =>
       /\ CutOf(nres.download) = CutOf(nres.downloadGet)
       /\ Tail(CutOf(nres.preview)) = Tail(CutOf(nres.download))
       /\ nres.cache # "incomplete" => nres.preview.i = nres.download.i

\* C17 witness: a Precise job of the first revision whose cut is the same on
\* both paths and whose settings differ.
C17_Witness ==
  /\ nfn = "trimArgs" /\ nres.ok /\ nres.precise
  /\ CutOf(nres.preview) = CutOf(nres.download)
  /\ nres.preview.preset = "ultrafast" /\ nres.download.preset = "veryfast"

\* C18: a /trim job whose encoder exited with a nonzero code never has a
\* success status on its response, on the download path and on the streamed
\* preview path alike.
C18_EncoderFailureNotSuccess ==
  \A r \in Req : req[r].enc = "exitErr" => req[r].status \notin 200..299

\* C19: no response body holds the text the encoder wrote to stderr.
C19_StderrNotInBody == \A r \in Req : req[r].body # "stderr"

\* C12: no encoder is given a local source file that is incomplete or
\* missing: whatever the interleaving of /video and /trim requests, the
\* input of an encoder is the URL or a local file whose size is the asset's.
C12_EncoderInputComplete ==
  \A r \in CReq : creq[r].input \in {"none", "url", "complete"}

\* C13: when a download of the second revision finishes and the file's size
\* is not the expected size, the file is removed, the request ends with
\* status 500 and the size-mismatch error, it has spawned no encoder and it
\* has called downloadFile once.
C13_SizeMismatchRejected ==
  [][\A r \in CReq :
       (/\ creq[r].pc = "writing" /\ creq'[r].pc # "writing"
        /\ creq'[r].err # "stream"
        /\ ~isCompleteFile(disk, PathOf(creq[r]), FileChunks))
         => (/\ ~existsSync(disk', PathOf(creq[r]))
             /\ creq'[r].pc = "done" /\ creq'[r].status = 500
             /\ creq'[r].err = "integrity"
             /\ creq'[r].input = "none" /\ creq'[r].fetches = 1)]_vars

\* C13 witness: a request of the second revision has ended with the
\* size-mismatch error and no file is in the temp directory.
C13_Witness ==
  /\ rev = "second"
  /\ \E r \in CReq :
       /\ creq[r].pc = "done" /\ creq[r].err = "integrity"
       /\ creq[r].status = 500
       /\ creq[r].fetches = 1 /\ creq[r].input = "none"
  /\ disk = NoFiles

\* A file left by a download that is over: it exists, its size is not the
\* asset's, and no write stream is open on it.
Leftover(p) ==
  /\ existsSync(disk, p) /\ disk[p] # FileChunks
  /\ \A x \in CReq : ~(creq[x].pc = "writing" /\ PathOf(creq[x]) = p)

\* C14: a request that finds the leftover of a failed download of its asset
\* does not use it: once its metadata are there it starts a new download (or
\* reads the asset over HTTP).
C14_LeftoverNotReused ==
  [][\A r \in CReq :
       (/\ creq[r].pc = "meta" /\ Leftover(PathOf(creq[r]))
        /\ creq'[r].pc # "meta" /\ creq'[r].err # "metadata")
         => (creq'[r].pc = "fetch" \/ creq'[r].input = "url")]_vars

\* C15: when no request is in progress, at most one complete source asset
\* is in the temp directory.
C15_OneLargeAssetRetained ==
  (\A r \in CReq : creq[r].pc \in {"idle", "done"})
    => Cardinality({p \in DOMAIN disk : disk[p] = FileChunks}) <= 1

\* The callers whose closure stands for a slot: returned and not yet called.
Holders == {c \in Callers : cap[c].st = "held" /\ cap[c].calls = 0}

\* C20: calls of a release closure after the first do not change inFlight:
\* inFlight is the number of closures not yet called, it is never below 0,
\* and never more than MAX_JOBS callers hold a slot.
C20_DoubleReleaseSafe ==
  /\ inFlight = Cardinality(Holders)
  /\ inFlight >= 0
  /\ Cardinality(Holders) <= MAX_JOBS

\* The request q with its seconds fields removed.
MsPairOf(q) == [q EXCEPT !.start = None, !.end = None]

\* C21: when startMs and endMs are both present they determine the range,
\* whether or not start and end are present as well: the normalizer returns
\* what it returns for the millisecond pair alone.
C21_MsPairHasPriority ==
  (/\ nfn \in {"normalizeTimes", "trimRange"} /\ nres # Pending
   /\ nq.startMs.t # "none" /\ nq.endMs.t # "none") =>
    /\ nfn = "normalizeTimes" => nres = normalizeTimes(MsPairOf(nq))
    /\ nfn = "trimRange" => nres = trimRange(MsPairOf(nq))

\* C22: a retrieval by a session other than the one that created the handle
\* is answered Forbidden, a retrieval of an unknown, destroyed or expired
\* handle is answered NotFound, and a preview is served only to the session
\* that created it and before its expiry.
C22_PreviewOnlyToOwnerBeforeExpiry ==
  [][retr' # retr =>
       LET h == previews[retr'.id]
           usable == h.st = "live" /\ clock < h.expiresAt
       IN  /\ ~usable => retr'.result = "NotFound"
           /\ (usable /\ h.sessionId # retr'.sessionId)
                => retr'.result = "Forbidden"
           /\ retr'.result = "served"
                => (usable /\ h.sessionId = retr'.sessionId)]_vars

\* C22 witness: the creating session asked for its preview after the expiry,
\* before the timer removed the handle, and was answered NotFound, while
\* another handle is live and not expired.
C22_Witness ==
  /\ retr.result = "NotFound" /\ retr.held
  /\ previews[retr.id].st = "live"
  /\ previews[retr.id].sessionId = retr.sessionId
  /\ \E h \in HandleIds : previews[h].st = "live" /\ clock < previews[h].expiresAt

\* The step of request r hands it its local source file: /video answers
\* from the file, or /trim spawns the encoder on it.
UsesLocalFile(r) ==
  /\ creq[r].pc \in {"meta", "writing"}
  /\ \/ creq[r].route = "video" /\ creq'[r].pc = "stream"
     \/ /\ creq[r].route = "trim" /\ creq'[r].pc = "encode"
        /\ creq'[r].input \in {"complete", "incomplete"}

\* C23: a request for one asset is never served or trimmed from a local
\* file that holds bytes of another asset, two assets with the same file
\* name included: the file a request is handed was written by downloads of
\* its own asset only.
C23_NoForeignBytes ==
  [][\A r \in CReq :
       UsesLocalFile(r)
         => origin'[PathOf(creq[r])] \subseteq {creq[r].asset}]_vars

\* C24: every range a normalizer returns has a duration greater than 0
\* after the rounding to the millisecond, for every input it accepts, bounds
\* that differ by less than a millisecond included (normalizeTimes, and
\* parseTimeInputs with the handler's check).
C24_RoundedDurationPositive ==
  (nfn \in {"normalizeTimes", "trimRange"} /\ nres.ok) => nres.duration > 0

\* C25: in every reachable state 0 <= inFlight <= MAX_JOBS, whatever the
\* interleaving of arrivals, wake-ups of the polling loop and releases: a
\* waiter is admitted only by a test and increment that nothing separates.
C25_CounterWithinCapacity == 0 <= inFlight /\ inFlight <= MAX_JOBS

\* C25 witness: the gate is full, one request is encoding with the slot and
\* another is waiting in the polling loop.
C25_Witness ==
  /\ inFlight = MAX_JOBS
  /\ \E r1, r2 \in Req :
       /\ Holding(r1) /\ req[r1].pc = "encode"
       /\ req[r2].pc = "gate"

\* C26: for timestamps hh:mm:ss[.f] with up to three fractional digits the
\* range parseTimeInputs returns starts and ends at hh * 3600000 + mm * 60000
\* + ss * 1000 milliseconds plus the fraction read as a decimal fraction of
\* a second; and msToTimestamp(ms) parsed back gives ms, for ms >= 0.
C26_TimestampParse ==
  /\ (/\ nfn = "trimRange" /\ nres.ok
      /\ nq.start.t = "ts" /\ nq.end.t = "ts"
      /\ nq.startMs.t = "none" \/ nq.endMs.t = "none")
       => /\ nres.startMs = Denotes(nq.start).v
          /\ nres.startMs + nres.duration = Denotes(nq.end).v
  /\ (nfn = "msRoundTrip" /\ nres # Pending)
       => (nres.ok /\ nres.ms = nq.ms)

\* The file at p is being read: by the read stream of a /video response or
\* by the encoder of a /trim request that was given the local file.
BeingRead(p) ==
  \E x \in CReq :
    /\ PathOf(creq[x]) = p
    /\ \/ creq[x].pc = "stream"
       \/ creq[x].pc = "encode" /\ creq[x].input \in {"complete", "incomplete"}

\* C27: the eviction of the previously retained large asset (the unlink of
\* lastTempFile made by a /video handler once its metadata are there) never
\* removes a file that a range stream or a running encoder is reading.
C27_EvictionSparesFilesInUse ==
  [][\A p \in DOMAIN disk :
       (/\ p \notin DOMAIN disk'
        /\ \E r \in CReq : creq[r].pc = "meta" /\ creq'[r].pc # "meta")
         => ~BeingRead(p)]_vars

\* The requests whose download is writing the file at p, and those that
\* read it (a /video read stream, or an encoder given the local file), in
\* the request table cr.
WritersOf(cr, p) ==
  {x \in CReq : /\ cr[x].pc = "writing" /\ cr[x].linked
                /\ SourcePath(rev, cr[x].asset) = p}
ReadersOf(cr, p) ==
  {x \in CReq : /\ SourcePath(rev, cr[x].asset) = p
                /\ \/ cr[x].pc = "stream"
                   \/ /\ cr[x].pc = "encode"
                      /\ cr[x].input \in {"complete", "incomplete"}}

\* C28: at most one download writes to a cache path at a time, no request
\* reads the file while a download is writing it, and no request tests it
\* (existsSync, isCompleteFile) while another request's download is writing
\* it.
C28_OneWriterPerPath ==
  [][\A p \in DOMAIN disk' :
       /\ Cardinality(WritersOf(creq', p)) <= 1
       /\ WritersOf(creq', p) # {} => ReadersOf(creq', p) = {}
       /\ \A r \in CReq :
            (/\ creq[r].pc = "meta" /\ creq'[r].pc # "meta"
             /\ creq'[r].err # "metadata" /\ PathOf(creq[r]) = p)
              => WritersOf(creq, p) = {}]_vars

\* The output file of job j is being written or sent, in the job table jb.
OutputInUse(jb, j) == jb[j].pc \in {"encode", "send"}

\* C29: two jobs whose output files are in use at the same time have
\* different output paths; so the start of an encoder never opens, and the
\* cleanup of a job never removes, the output file another job is writing
\* or sending.
C29_OutputPathsDistinct ==
  [][/\ \A j1, j2 \in Jobs :
          (j1 # j2 /\ OutputInUse(job', j1) /\ OutputInUse(job', j2))
            => job'[j1].outPath # job'[j2].outPath
     /\ \A j \in Jobs :
          OutputInUse(job', j) =>
            (job'[j].outPath \in DOMAIN outs' => outs'[job'[j].outPath] = {j})
     /\ \A p \in DOMAIN outs :
          p \notin DOMAIN outs'
            => \A j \in Jobs : ~(OutputInUse(job', j) /\ job'[j].outPath = p)]_vars

=============================================================================
